---- MODULE Spec2Model ----
(***************************************************************************)
(* Model of packages/macro/src/macro.ts, lines 226-376: the extraction of  *)
(* a style object from a postcss tree (getStyleObjectFromTwObject), the    *)
(* ordering of a style object (sortStyleObject) and the merge of the       *)
(* style objects of a class list (transformTwClassesToStyleObject).        *)
(*                                                                         *)
(* Strings the code inspects (keys, selectors, class names) are sequences  *)
(* of one-character strings, so that startsWith, includes, replace and     *)
(* parseInt are computed.  Declaration values are opaque strings.          *)
(* A JavaScript object is the sequence of its entries in insertion order   *)
(* (keys are unique and never integer-like, so Object.entries and          *)
(* Object.fromEntries keep the order).  Array indices are 0-based as in    *)
(* the code: At(a, i) is a[i].                                             *)
(***************************************************************************)
EXTENDS Integers, Sequences, FiniteSets, TLC

VARIABLES pc, styleObject, sorted, resorted,
          root, twClass, extracted,
          twParsedClasses, idx, mergedStyleObject, result

vars == <<pc, styleObject, sorted, resorted, root, twClass, extracted,
          twParsedClasses, idx, mergedStyleObject, result>>

(***************************************************************************)
(* Values                                                                  *)
(***************************************************************************)
\* A JavaScript value as the code sees it: typeof, Array.isArray, and the
\* payload (a string, the items of an array, the entries of an object).
StringValue(s) == [type |-> "string", isArray |-> FALSE, str |-> s, items |-> <<>>, entries |-> <<>>]
ArrayValue(xs) == [type |-> "object", isArray |-> TRUE, str |-> "", items |-> xs, entries |-> <<>>]
ObjectValue(es) == [type |-> "object", isArray |-> FALSE, str |-> "", items |-> <<>>, entries |-> es]
NumberValue(s) == [type |-> "number", isArray |-> FALSE, str |-> s, items |-> <<>>, entries |-> <<>>]
Entry(k, v) == [key |-> k, value |-> v]

\* The outcome of a call: a returned value, or a thrown Error.
Return(v) == [threw |-> FALSE, value |-> v]
Thrown == [threw |-> TRUE, value |-> <<>>]

At(a, i) == a[i + 1]
Put(a, i, x) == [a EXCEPT ![i + 1] = x]
Slice(a, from, to) == SubSeq(a, from + 1, to)

(***************************************************************************)
(* sortStyleObject: classification and comparator                          *)
(***************************************************************************)
Digits == {"0", "1", "2", "3", "4", "5", "6", "7", "8", "9"}
DigitValue(c) == CASE c = "0" -> 0 [] c = "1" -> 1 [] c = "2" -> 2 [] c = "3" -> 3
                   [] c = "4" -> 4 [] c = "5" -> 5 [] c = "6" -> 6 [] c = "7" -> 7
                   [] c = "8" -> 8 [] c = "9" -> 9

startsWith(key, prefix) ==
    /\ Len(key) >= Len(prefix)
    /\ SubSeq(key, 1, Len(prefix)) = prefix
includes(key, c) == \E i \in 1..Len(key) : key[i] = c

\* first.replace(/[^0-9]*/g, ""): the digits of the key, in order.
stripNonDigits(key) == SelectSeq(key, LAMBDA c : c \in Digits)

\* parseInt of a string of digits; NaN for the empty string.
NaN == -1
RECURSIVE parseDigits(_, _)
parseDigits(ds, acc) ==
    IF ds = <<>> THEN acc ELSE parseDigits(Tail(ds), 10 * acc + DigitValue(Head(ds)))
parseInt(ds) == IF ds = <<>> THEN NaN ELSE parseDigits(ds, 0)
\* a < b and a > b on numbers: false when either side is NaN.
NumLess(a, b) == a # NaN /\ b # NaN /\ a < b

Unsupported == "throw"
getValueType(key, value) ==
    IF value.type = "string"
    THEN IF startsWith(key, <<"-", "-">>) THEN "declVariable" ELSE "decl"
    ELSE IF value.type = "object" /\ value.isArray THEN "declArray"
    ELSE IF value.type = "object" /\ startsWith(key, <<"@">>) THEN "atRule"
    ELSE IF value.type = "object" /\ includes(key, "&") THEN "rule"
    ELSE Unsupported

isDeclType(t) == t \in {"decl", "declVariable", "declArray"}

\* Lines 313-318, both entries of the declaration family.  Line 315 tests
\* firstValueType, a non-empty string and so always truthy, where
\* firstIsCssVar stands two lines below.
compareDeclarations(firstValueType, secondValueType) ==
    LET firstIsCssVar == firstValueType = "declVariable"
        secondIsCssVar == secondValueType = "declVariable"
    IN  IF firstValueType # "" /\ secondIsCssVar THEN 0
        ELSE IF firstIsCssVar THEN -1
        ELSE IF secondIsCssVar THEN 1
        ELSE 0

\* Lines 330-338, both entries at-rules.
compareAtRules(first, second) ==
    LET firstNumber == parseInt(stripNonDigits(first))
        secondNumber == parseInt(stripNonDigits(second))
    IN  IF NumLess(firstNumber, secondNumber) THEN -1
        ELSE IF NumLess(secondNumber, firstNumber) THEN 1
        ELSE 0

\* Lines 325-349, neither entry of the declaration family.
compareRules(first, firstValueType, second, secondValueType) ==
    IF firstValueType = "atRule" /\ secondValueType = "atRule"
    THEN compareAtRules(first, second)
    ELSE IF firstValueType = "atRule" THEN 1
    ELSE IF secondValueType = "atRule" THEN -1
    ELSE 0

\* The comparator with the returns of lines 321 and 322 exchanged.
compareDeclAfterRule(firstEntry, secondEntry) ==
    LET firstValueType == getValueType(firstEntry.key, firstEntry.value)
        secondValueType == getValueType(secondEntry.key, secondEntry.value)
    IN  IF isDeclType(firstValueType) /\ isDeclType(secondValueType)
        THEN compareDeclarations(firstValueType, secondValueType)
        ELSE IF isDeclType(firstValueType) THEN 1
        ELSE IF isDeclType(secondValueType) THEN -1
        ELSE compareRules(firstEntry.key, firstValueType, secondEntry.key, secondValueType)

\* The comparator handed to timsort.sort (lines 305-350), on entries
\* getValueType accepts.
compare(firstEntry, secondEntry) ==
    LET firstValueType == getValueType(firstEntry.key, firstEntry.value)
        secondValueType == getValueType(secondEntry.key, secondEntry.value)
    IN  IF isDeclType(firstValueType) /\ isDeclType(secondValueType)
        THEN compareDeclarations(firstValueType, secondValueType)
        ELSE IF isDeclType(firstValueType) THEN -1
        ELSE IF isDeclType(secondValueType) THEN 1
        ELSE compareRules(firstEntry.key, firstValueType, secondEntry.key, secondValueType)

(***************************************************************************)
(* timsort.sort(array, compare), the sort the code calls at line 302.      *)
(* Arrays shorter than DEFAULT_MIN_MERGE take one run and a binary         *)
(* insertion sort; longer ones are cut into runs that are merged with      *)
(* galloping.  The comparator is only ever tested with < 0, >= 0, > 0 and  *)
(* <= 0, as written below.                                                 *)
(***************************************************************************)
DEFAULT_MIN_MERGE == 32
DEFAULT_MIN_GALLOPING == 7

\* for (i = 0; i < count; i++) array[dest + i] = source[from + i]
copyInto(array, dest, source, from, count) ==
    [j \in 1..Len(array) |->
        IF j - 1 >= dest /\ j - 1 < dest + count
        THEN At(source, from + (j - 1 - dest))
        ELSE array[j]]

RECURSIVE minRunLengthLoop(_, _)
minRunLengthLoop(n, r) ==
    IF n >= DEFAULT_MIN_MERGE
    THEN minRunLengthLoop(n \div 2, IF n % 2 = 1 THEN 1 ELSE r)
    ELSE n + r
minRunLength(n) == minRunLengthLoop(n, 0)

reverseRun(array, lo, hi) ==
    [j \in 1..Len(array) |->
        IF j - 1 >= lo /\ j - 1 < hi THEN At(array, lo + hi - 1 - (j - 1)) ELSE array[j]]

RECURSIVE descendingRunEnd(_, _, _)
descendingRunEnd(array, runHi, hi) ==
    IF runHi < hi /\ compare(At(array, runHi), At(array, runHi - 1)) < 0
    THEN descendingRunEnd(array, runHi + 1, hi)
    ELSE runHi

RECURSIVE ascendingRunEnd(_, _, _)
ascendingRunEnd(array, runHi, hi) ==
    IF runHi < hi /\ compare(At(array, runHi), At(array, runHi - 1)) >= 0
    THEN ascendingRunEnd(array, runHi + 1, hi)
    ELSE runHi

makeAscendingRun(array, lo, hi) ==
    IF lo + 1 = hi THEN [array |-> array, runLength |-> 1]
    ELSE IF compare(At(array, lo + 1), At(array, lo)) < 0
    THEN LET runHi == descendingRunEnd(array, lo + 2, hi)
         IN  [array |-> reverseRun(array, lo, runHi), runLength |-> runHi - lo]
    ELSE LET runHi == ascendingRunEnd(array, lo + 2, hi)
         IN  [array |-> array, runLength |-> runHi - lo]

RECURSIVE binarySearch(_, _, _, _)
binarySearch(array, pivot, left, right) ==
    IF left < right
    THEN LET mid == (left + right) \div 2
         IN  IF compare(pivot, At(array, mid)) < 0
             THEN binarySearch(array, pivot, left, mid)
             ELSE binarySearch(array, pivot, mid + 1, right)
    ELSE left

\* array[left .. start-1] moves one place up, the pivot array[start] lands at left
insertPivot(array, left, start) ==
    [j \in 1..Len(array) |->
        IF j - 1 = left THEN At(array, start)
        ELSE IF j - 1 > left /\ j - 1 <= start THEN At(array, j - 2)
        ELSE array[j]]

RECURSIVE binaryInsertionLoop(_, _, _, _)
binaryInsertionLoop(array, lo, hi, start) ==
    IF start < hi
    THEN LET left == binarySearch(array, At(array, start), lo, start)
         IN  binaryInsertionLoop(insertPivot(array, left, start), lo, hi, start + 1)
    ELSE array
binaryInsertionSort(array, lo, hi, start) ==
    binaryInsertionLoop(array, lo, hi, IF start = lo THEN start + 1 ELSE start)

\* The four gallop probes: the loop condition of the exponential search.
gallopTest(mode, value, array, start, hint, offset) ==
    CASE mode = "leftUp" -> compare(value, At(array, start + hint + offset)) > 0
      [] mode = "leftDown" -> compare(value, At(array, start + hint - offset)) <= 0
      [] mode = "rightDown" -> compare(value, At(array, start + hint - offset)) < 0
      [] mode = "rightUp" -> compare(value, At(array, start + hint + offset)) >= 0

RECURSIVE gallopLoop(_, _, _, _, _, _, _, _)
gallopLoop(mode, value, array, start, hint, lastOffset, offset, maxOffset) ==
    IF offset < maxOffset /\ gallopTest(mode, value, array, start, hint, offset)
    THEN gallopLoop(mode, value, array, start, hint, offset, 2 * offset + 1, maxOffset)
    ELSE [lastOffset |-> lastOffset,
          offset |-> IF offset > maxOffset THEN maxOffset ELSE offset]

RECURSIVE gallopLeftSearch(_, _, _, _, _)
gallopLeftSearch(value, array, start, lastOffset, offset) ==
    IF lastOffset < offset
    THEN LET m == lastOffset + ((offset - lastOffset) \div 2)
         IN  IF compare(value, At(array, start + m)) > 0
             THEN gallopLeftSearch(value, array, start, m + 1, offset)
             ELSE gallopLeftSearch(value, array, start, lastOffset, m)
    ELSE offset

gallopLeft(value, array, start, length, hint) ==
    IF compare(value, At(array, start + hint)) > 0
    THEN LET g == gallopLoop("leftUp", value, array, start, hint, 0, 1, length - hint)
         IN  gallopLeftSearch(value, array, start, g.lastOffset + hint + 1, g.offset + hint)
    ELSE LET g == gallopLoop("leftDown", value, array, start, hint, 0, 1, hint + 1)
         IN  gallopLeftSearch(value, array, start, hint - g.offset + 1, hint - g.lastOffset)

RECURSIVE gallopRightSearch(_, _, _, _, _)
gallopRightSearch(value, array, start, lastOffset, offset) ==
    IF lastOffset < offset
    THEN LET m == lastOffset + ((offset - lastOffset) \div 2)
         IN  IF compare(value, At(array, start + m)) < 0
             THEN gallopRightSearch(value, array, start, lastOffset, m)
             ELSE gallopRightSearch(value, array, start, m + 1, offset)
    ELSE offset

gallopRight(value, array, start, length, hint) ==
    IF compare(value, At(array, start + hint)) < 0
    THEN LET g == gallopLoop("rightDown", value, array, start, hint, 0, 1, hint + 1)
         IN  gallopRightSearch(value, array, start, hint - g.offset + 1, hint - g.lastOffset)
    ELSE LET g == gallopLoop("rightUp", value, array, start, hint, 0, 1, length - hint)
         IN  gallopRightSearch(value, array, start, g.lastOffset + hint + 1, g.offset + hint)

\* mergeLow: run 1 is copied to tmp and the two runs are merged left to right.
\* st holds the locals of the method; exit is the flag of the same name.
lowTakeFromRun2(st) ==
    [st EXCEPT !.array = Put(@, st.dest, At(st.array, st.cursor2)),
               !.dest = @ + 1, !.cursor2 = @ + 1,
               !.count2 = @ + 1, !.count1 = 0, !.length2 = @ - 1,
               !.exit = (st.length2 - 1 = 0)]
lowTakeFromRun1(st) ==
    [st EXCEPT !.array = Put(@, st.dest, At(st.tmp, st.cursor1)),
               !.dest = @ + 1, !.cursor1 = @ + 1,
               !.count1 = @ + 1, !.count2 = 0, !.length1 = @ - 1,
               !.exit = (st.length1 - 1 = 1)]

RECURSIVE mergeLowOneAtATime(_)
mergeLowAgain(s) ==
    IF s.exit THEN s
    ELSE IF s.count1 + s.count2 < s.minGallop THEN mergeLowOneAtATime(s)
    ELSE s
mergeLowOneAtATime(st) ==
    IF compare(At(st.array, st.cursor2), At(st.tmp, st.cursor1)) < 0
    THEN mergeLowAgain(lowTakeFromRun2(st))
    ELSE mergeLowAgain(lowTakeFromRun1(st))

\* The galloping do-while of mergeLow, statement by statement.
lowCopyRun1(st, count1) ==
    [st EXCEPT !.count1 = count1,
               !.array = copyInto(@, st.dest, st.tmp, st.cursor1, count1),
               !.dest = @ + count1, !.cursor1 = @ + count1,
               !.length1 = @ - count1,
               !.exit = (count1 # 0 /\ st.length1 - count1 <= 1)]
lowMoveRun2(st) ==
    [st EXCEPT !.array = Put(@, st.dest, At(st.array, st.cursor2)),
               !.dest = @ + 1, !.cursor2 = @ + 1, !.length2 = @ - 1,
               !.exit = (st.length2 - 1 = 0)]
lowCopyRun2(st, count2) ==
    [st EXCEPT !.count2 = count2,
               !.array = copyInto(@, st.dest, st.array, st.cursor2, count2),
               !.dest = @ + count2, !.cursor2 = @ + count2,
               !.length2 = @ - count2,
               !.exit = (count2 # 0 /\ st.length2 - count2 = 0)]
lowMoveRun1(st) ==
    [st EXCEPT !.array = Put(@, st.dest, At(st.tmp, st.cursor1)),
               !.dest = @ + 1, !.cursor1 = @ + 1, !.length1 = @ - 1,
               !.exit = (st.length1 - 1 = 1)]

RECURSIVE mergeLowGallop(_)
mergeLowGallop5(st) ==
    IF st.exit THEN st
    ELSE IF st.count1 >= DEFAULT_MIN_GALLOPING \/ st.count2 >= DEFAULT_MIN_GALLOPING
    THEN mergeLowGallop([st EXCEPT !.minGallop = @ - 1])
    ELSE [st EXCEPT !.minGallop = @ - 1]
mergeLowGallop4(st) ==
    IF st.exit THEN st ELSE mergeLowGallop5(lowMoveRun1(st))
mergeLowGallop3(st) ==
    IF st.exit THEN st
    ELSE mergeLowGallop4(lowCopyRun2(st,
             gallopLeft(At(st.tmp, st.cursor1), st.array, st.cursor2, st.length2, 0)))
mergeLowGallop2(st) ==
    IF st.exit THEN st ELSE mergeLowGallop3(lowMoveRun2(st))
mergeLowGallop(st) ==
    mergeLowGallop2(lowCopyRun1(st,
        gallopRight(At(st.array, st.cursor2), st.tmp, st.cursor1, st.length1, 0)))

RECURSIVE mergeLowLoop(_)
mergeLowAfterGallop(st) ==
    IF st.exit THEN st
    ELSE mergeLowLoop([st EXCEPT !.minGallop = (IF @ < 0 THEN 0 ELSE @) + 2])
mergeLowAfterOneAtATime(st) ==
    IF st.exit THEN st ELSE mergeLowAfterGallop(mergeLowGallop(st))
mergeLowLoop(st) ==
    mergeLowAfterOneAtATime(mergeLowOneAtATime([st EXCEPT !.count1 = 0, !.count2 = 0]))

\* The statements after the loop of mergeLow.  A merge returns
\* [array, minGallop, threw].
mergeLowFinish(st) ==
    [array |-> IF st.length1 = 1
               THEN Put(copyInto(st.array, st.dest, st.array, st.cursor2, st.length2),
                        st.dest + st.length2, At(st.tmp, st.cursor1))
               ELSE IF st.length1 = 0 THEN st.array
               ELSE copyInto(st.array, st.dest, st.tmp, st.cursor1, st.length1),
     minGallop |-> IF st.minGallop < 1 THEN 1 ELSE st.minGallop,
     threw |-> st.length1 = 0]

\* first is the array after array[dest++] = array[cursor2++].
mergeLowFrom(first, tmp, minGallop, start1, length1, start2, length2) ==
    IF length2 - 1 = 0
    THEN [array |-> copyInto(first, start1 + 1, tmp, 0, length1),
          minGallop |-> minGallop, threw |-> FALSE]
    ELSE IF length1 = 1
    THEN [array |-> Put(copyInto(first, start1 + 1, first, start2 + 1, length2 - 1),
                        start1 + length2, At(tmp, 0)),
          minGallop |-> minGallop, threw |-> FALSE]
    ELSE mergeLowFinish(mergeLowLoop(
             [array |-> first, tmp |-> tmp, cursor1 |-> 0, cursor2 |-> start2 + 1,
              dest |-> start1 + 1, start1 |-> start1, length1 |-> length1,
              length2 |-> length2 - 1, minGallop |-> minGallop,
              count1 |-> 0, count2 |-> 0, exit |-> FALSE]))

mergeLow(array, minGallop, start1, length1, start2, length2) ==
    mergeLowFrom(Put(array, start1, At(array, start2)),
                 Slice(array, start1, start1 + length1),
                 minGallop, start1, length1, start2, length2)

\* mergeHigh: run 2 is copied to tmp and the two runs are merged right to left.
highTakeFromRun1(st) ==
    [st EXCEPT !.array = Put(@, st.dest, At(st.array, st.cursor1)),
               !.dest = @ - 1, !.cursor1 = @ - 1,
               !.count1 = @ + 1, !.count2 = 0, !.length1 = @ - 1,
               !.exit = (st.length1 - 1 = 0)]
highTakeFromRun2(st) ==
    [st EXCEPT !.array = Put(@, st.dest, At(st.tmp, st.cursor2)),
               !.dest = @ - 1, !.cursor2 = @ - 1,
               !.count2 = @ + 1, !.count1 = 0, !.length2 = @ - 1,
               !.exit = (st.length2 - 1 = 1)]

RECURSIVE mergeHighOneAtATime(_)
mergeHighAgain(s) ==
    IF s.exit THEN s
    ELSE IF s.count1 + s.count2 < s.minGallop THEN mergeHighOneAtATime(s)
    ELSE s
mergeHighOneAtATime(st) ==
    IF compare(At(st.tmp, st.cursor2), At(st.array, st.cursor1)) < 0
    THEN mergeHighAgain(highTakeFromRun1(st))
    ELSE mergeHighAgain(highTakeFromRun2(st))

highCopyRun1(st, count1) ==
    [st EXCEPT !.count1 = count1,
               !.array = copyInto(@, st.dest - count1 + 1, st.array,
                                  st.cursor1 - count1 + 1, count1),
               !.dest = @ - count1, !.cursor1 = @ - count1,
               !.length1 = @ - count1,
               !.exit = (count1 # 0 /\ st.length1 - count1 = 0)]
highMoveRun2(st) ==
    [st EXCEPT !.array = Put(@, st.dest, At(st.tmp, st.cursor2)),
               !.dest = @ - 1, !.cursor2 = @ - 1, !.length2 = @ - 1,
               !.exit = (st.length2 - 1 = 1)]
highCopyRun2(st, count2) ==
    [st EXCEPT !.count2 = count2,
               !.array = copyInto(@, st.dest - count2 + 1, st.tmp,
                                  st.cursor2 - count2 + 1, count2),
               !.dest = @ - count2, !.cursor2 = @ - count2,
               !.length2 = @ - count2,
               !.exit = (count2 # 0 /\ st.length2 - count2 <= 1)]
highMoveRun1(st) ==
    [st EXCEPT !.array = Put(@, st.dest, At(st.array, st.cursor1)),
               !.dest = @ - 1, !.cursor1 = @ - 1, !.length1 = @ - 1,
               !.exit = (st.length1 - 1 = 0)]

RECURSIVE mergeHighGallop(_)
mergeHighGallop5(st) ==
    IF st.exit THEN st
    ELSE IF st.count1 >= DEFAULT_MIN_GALLOPING \/ st.count2 >= DEFAULT_MIN_GALLOPING
    THEN mergeHighGallop([st EXCEPT !.minGallop = @ - 1])
    ELSE [st EXCEPT !.minGallop = @ - 1]
mergeHighGallop4(st) ==
    IF st.exit THEN st ELSE mergeHighGallop5(highMoveRun1(st))
mergeHighGallop3(st) ==
    IF st.exit THEN st
    ELSE mergeHighGallop4(highCopyRun2(st,
             st.length2 - gallopLeft(At(st.array, st.cursor1), st.tmp, 0,
                                     st.length2, st.length2 - 1)))
mergeHighGallop2(st) ==
    IF st.exit THEN st ELSE mergeHighGallop3(highMoveRun2(st))
mergeHighGallop(st) ==
    mergeHighGallop2(highCopyRun1(st,
        st.length1 - gallopRight(At(st.tmp, st.cursor2), st.array, st.start1,
                                 st.length1, st.length1 - 1)))

RECURSIVE mergeHighLoop(_)
mergeHighAfterGallop(st) ==
    IF st.exit THEN st
    ELSE mergeHighLoop([st EXCEPT !.minGallop = (IF @ < 0 THEN 0 ELSE @) + 2])
mergeHighAfterOneAtATime(st) ==
    IF st.exit THEN st ELSE mergeHighAfterGallop(mergeHighGallop(st))
mergeHighLoop(st) ==
    mergeHighAfterOneAtATime(mergeHighOneAtATime([st EXCEPT !.count1 = 0, !.count2 = 0]))

mergeHighFinish(st) ==
    [array |-> IF st.length2 = 1
               THEN Put(copyInto(st.array, st.dest - st.length1 + 1, st.array,
                                 st.cursor1 - st.length1 + 1, st.length1),
                        st.dest - st.length1, At(st.tmp, st.cursor2))
               ELSE IF st.length2 = 0 THEN st.array
               ELSE copyInto(st.array, st.dest - (st.length2 - 1), st.tmp, 0, st.length2),
     minGallop |-> IF st.minGallop < 1 THEN 1 ELSE st.minGallop,
     threw |-> st.length2 = 0]

\* first is the array after array[dest--] = array[cursor1--].
mergeHighFrom(first, tmp, minGallop, start1, length1, start2, length2) ==
    IF length1 - 1 = 0
    THEN [array |-> copyInto(first, start2 - 1, tmp, 0, length2),
          minGallop |-> minGallop, threw |-> FALSE]
    ELSE IF length2 = 1
    THEN [array |-> Put(copyInto(first, start2 - length1 + 1, first, start1, length1 - 1),
                        start2 - length1, At(tmp, 0)),
          minGallop |-> minGallop, threw |-> FALSE]
    ELSE mergeHighFinish(mergeHighLoop(
             [array |-> first, tmp |-> tmp, cursor1 |-> start1 + length1 - 2,
              cursor2 |-> length2 - 1, dest |-> start2 + length2 - 2,
              start1 |-> start1, length1 |-> length1 - 1, length2 |-> length2,
              minGallop |-> minGallop, count1 |-> 0, count2 |-> 0, exit |-> FALSE]))

mergeHigh(array, minGallop, start1, length1, start2, length2) ==
    mergeHighFrom(Put(array, start2 + length2 - 1, At(array, start1 + length1 - 1)),
                  Slice(array, start2, start2 + length2),
                  minGallop, start1, length1, start2, length2)

\* The run stack: ts = [array, runStart, runLength, minGallop, threw];
\* run n of the code is runStart[n + 1], runLength[n + 1] here.
removeAt(seq, i) == SubSeq(seq, 1, i) \o SubSeq(seq, i + 2, Len(seq))

withMerge(ts, m) ==
    [ts EXCEPT !.array = m.array, !.minGallop = m.minGallop, !.threw = m.threw]

mergeAtTrimmed(popped, start1, length1, start2, length2) ==
    IF length2 = 0 THEN popped
    ELSE IF length1 <= length2
    THEN withMerge(popped, mergeLow(popped.array, popped.minGallop,
                                    start1, length1, start2, length2))
    ELSE withMerge(popped, mergeHigh(popped.array, popped.minGallop,
                                     start1, length1, start2, length2))

\* mergeAt once the stack is updated: k elements of run 1 are in place.
mergeAtFrom(popped, k, start1, length1, start2, length2) ==
    IF length1 - k = 0 THEN popped
    ELSE mergeAtTrimmed(popped, start1 + k, length1 - k, start2,
             gallopLeft(At(popped.array, start1 + length1 - 1), popped.array, start2,
                        length2, length2 - 1))

mergeAt(ts, i) ==
    mergeAtFrom([ts EXCEPT !.runLength = removeAt(Put(@, i, At(ts.runLength, i)
                                                            + At(ts.runLength, i + 1)), i + 1),
                           !.runStart = removeAt(@, i + 1)],
                gallopRight(At(ts.array, At(ts.runStart, i + 1)), ts.array,
                            At(ts.runStart, i), At(ts.runLength, i), 0),
                At(ts.runStart, i), At(ts.runLength, i),
                At(ts.runStart, i + 1), At(ts.runLength, i + 1))

RECURSIVE mergeRuns(_)
mergeRuns(ts) ==
    LET stackSize == Len(ts.runStart)
        n == stackSize - 2
        len(j) == At(ts.runLength, j)
    IN  IF ts.threw \/ stackSize <= 1 THEN ts
        ELSE IF \/ (n >= 1 /\ len(n - 1) <= len(n) + len(n + 1))
                \/ (n >= 2 /\ len(n - 2) <= len(n) + len(n - 1))
        THEN mergeRuns(mergeAt(ts, IF len(n - 1) < len(n + 1) THEN n - 1 ELSE n))
        ELSE IF len(n) > len(n + 1) THEN ts
        ELSE mergeRuns(mergeAt(ts, n))

RECURSIVE forceMergeRuns(_)
forceMergeRuns(ts) ==
    LET stackSize == Len(ts.runStart)
        n == stackSize - 2
    IN  IF ts.threw \/ stackSize <= 1 THEN ts
        ELSE forceMergeRuns(mergeAt(ts,
                 IF n > 0 /\ At(ts.runLength, n - 1) < At(ts.runLength, n + 1)
                 THEN n - 1 ELSE n))

\* The do-while of sort: one run is made, extended to minRun, pushed, merged.
RECURSIVE sortRuns(_, _, _, _, _)
sortRunsNext(ts, lo, hi, remaining, minRun, runLength) ==
    IF ts.threw \/ remaining - runLength = 0 THEN ts
    ELSE sortRuns(ts, lo + runLength, hi, remaining - runLength, minRun)
pushRun(ts, array, runStart, runLength) ==
    [ts EXCEPT !.array = array, !.runStart = Append(@, runStart),
               !.runLength = Append(@, runLength)]
sortRunsWith(ts, run, lo, hi, remaining, minRun, force) ==
    IF run.runLength < minRun
    THEN sortRunsNext(mergeRuns(pushRun(ts,
                          binaryInsertionSort(run.array, lo, lo + force, lo + run.runLength),
                          lo, force)),
                      lo, hi, remaining, minRun, force)
    ELSE sortRunsNext(mergeRuns(pushRun(ts, run.array, lo, run.runLength)),
                      lo, hi, remaining, minRun, run.runLength)
sortRuns(ts, lo, hi, remaining, minRun) ==
    sortRunsWith(ts, makeAscendingRun(ts.array, lo, hi), lo, hi, remaining, minRun,
                 IF remaining > minRun THEN minRun ELSE remaining)

sortShort(run, remaining) ==
    [array |-> binaryInsertionSort(run.array, 0, remaining, run.runLength),
     threw |-> FALSE]
sortLong(ts) == [array |-> ts.array, threw |-> ts.threw]

\* timsort.sort(array, compare) on entries the comparator accepts.
\* Returns [array, threw]: the merge methods throw when their preconditions
\* turn out not to hold.
sort(array) ==
    IF Len(array) < 2 THEN [array |-> array, threw |-> FALSE]
    ELSE IF Len(array) < DEFAULT_MIN_MERGE
    THEN sortShort(makeAscendingRun(array, 0, Len(array)), Len(array))
    ELSE sortLong(forceMergeRuns(
             sortRuns([array |-> array, runStart |-> <<>>, runLength |-> <<>>,
                       minGallop |-> DEFAULT_MIN_GALLOPING, threw |-> FALSE],
                      0, Len(array), Len(array), minRunLength(Len(array)))))

(***************************************************************************)
(* sortStyleObject (lines 268-354)                                         *)
(***************************************************************************)
isNested(value) == value.type = "object" /\ ~value.isArray

\* getValueType is called on both arguments of every comparison, and
\* timsort.sort compares every element of an array of two or more at
\* least once (an array of fewer returns before any comparison): the sort
\* throws exactly when such an array holds an entry of no supported type.
comparatorThrows(entries) ==
    /\ Len(entries) >= 2
    /\ \E i \in 1..Len(entries) :
          getValueType(entries[i].key, entries[i].value) = Unsupported

sortOutcome(s) == IF s.threw THEN Thrown ELSE Return(s.array)
sortEntries(styleObjectEntries) ==
    IF comparatorThrows(styleObjectEntries) THEN Thrown
    ELSE sortOutcome(sort(styleObjectEntries))

\* The loop of lines 272-277 sorts the nested objects first; a throw in one
\* of them ends the call.
RECURSIVE sortStyleObject(_)
sortNested(object, nested) ==
    IF \E i \in 1..Len(object) : nested[i].threw THEN Thrown
    ELSE sortEntries([i \in 1..Len(object) |->
                        IF isNested(object[i].value)
                        THEN Entry(object[i].key, ObjectValue(nested[i].value))
                        ELSE object[i]])
sortStyleObject(object) ==
    sortNested(object, [i \in 1..Len(object) |->
                          IF isNested(object[i].value)
                          THEN sortStyleObject(object[i].value.entries)
                          ELSE Return(<<>>)])

(***************************************************************************)
(* Style objects the ordering is exercised on                              *)
(***************************************************************************)
MaxEntries == 3
MaxNested == 2
WideExtra == 0
WideMiddle == 1

keysOf(object) == {object[i].key : i \in 1..Len(object)}

\* Every sequence of at most n entries of pool, no key twice.
RECURSIVE objectsUpTo(_, _)
objectsUpTo(pool, n) ==
    IF n = 0 THEN {<<>>}
    ELSE LET shorter == objectsUpTo(pool, n - 1)
         IN  shorter \cup
             {Append(p[1], p[2]) :
                 p \in {q \in shorter \X pool :
                           Len(q[1]) = n - 1 /\ q[2].key \notin keysOf(q[1])}}

colorDecl == Entry(<<"c">>, StringValue("red"))
variableDecl == Entry(<<"-", "-", "v">>, StringValue("1"))
arrayDecl == Entry(<<"d">>, ArrayValue(<<"a", "b">>))
numberEntry == Entry(<<"n">>, NumberValue("5"))
focusRule == Entry(<<"&", ":", "f">>, ObjectValue(<<colorDecl>>))
keyframeEntry == Entry(<<"t", "o">>, ObjectValue(<<colorDecl>>))
media640 == Entry(<<"@", "m", " ", "6", "4", "0", "p", "x">>, ObjectValue(<<colorDecl>>))
media1024 == Entry(<<"@", "m", " ", "1", "0", "2", "4", "p", "x">>, ObjectValue(<<colorDecl>>))
mediaPrint == Entry(<<"@", "m", " ", "p", "r", "i", "n", "t">>, ObjectValue(<<colorDecl>>))

nestedPool == {colorDecl, variableDecl, numberEntry, focusRule}
nestedObjects == objectsUpTo(nestedPool, MaxNested)
hoverRules == {Entry(<<"&", ":", "h">>, ObjectValue(body)) : body \in nestedObjects}
entryPool == {colorDecl, variableDecl, arrayDecl, numberEntry, focusRule,
              keyframeEntry, media640, media1024, mediaPrint} \cup hoverRules
smallObjects == objectsUpTo(entryPool, MaxEntries)

\* Levels long enough for timsort to merge runs: three blocks of entries
\* of one kind each, DEFAULT_MIN_MERGE + WideExtra entries in all.
letters == <<"a", "b", "c", "d", "e", "f", "g", "h", "i", "j", "k", "l", "m",
             "n", "o", "p", "q", "r", "s", "t", "u", "v", "w", "x", "y", "z">>
indexName(i) == <<letters[(i \div 26) + 1], letters[(i % 26) + 1]>>
wideEntry(kind, i) ==
    CASE kind = "decl" -> Entry(<<"p">> \o indexName(i), StringValue("x"))
      [] kind = "declVariable" -> Entry(<<"-", "-">> \o indexName(i), StringValue("x"))
      [] kind = "rule" -> Entry(<<"&">> \o indexName(i), ObjectValue(<<>>))
wideLength == DEFAULT_MIN_MERGE + WideExtra
wideObject(kinds, n1, n2) ==
    [i \in 1..wideLength |->
        wideEntry(IF i <= n1 THEN kinds[1]
                  ELSE IF i <= n1 + n2 THEN kinds[2] ELSE kinds[3], i - 1)]
wideOrders == {<<"decl", "rule", "declVariable">>, <<"declVariable", "decl", "rule">>,
               <<"rule", "declVariable", "decl">>}
wideObjects ==
    {wideObject(kinds, n1, n2) :
        kinds \in wideOrders, n1 \in 0..wideLength, n2 \in 0..WideMiddle}

(***************************************************************************)
(* SpecSort: sortStyleObject applied to a style object, and again to its   *)
(* result.                                                                 *)
(***************************************************************************)
idle == Return(<<>>)

InitSort ==
    /\ pc = "start"
    /\ styleObject \in smallObjects \cup wideObjects
    /\ sorted = idle
    /\ resorted = idle
    /\ root = <<>>
    /\ twClass = <<>>
    /\ extracted = idle
    /\ twParsedClasses = <<>>
    /\ idx = 0
    /\ mergedStyleObject = <<>>
    /\ result = idle

Canonicalize ==
    /\ pc = "start"
    /\ sorted' = sortStyleObject(styleObject)
    /\ pc' = "sorted"
    /\ UNCHANGED <<styleObject, resorted, root, twClass, extracted,
                   twParsedClasses, idx, mergedStyleObject, result>>

CanonicalizeAgain ==
    /\ pc = "sorted"
    /\ ~sorted.threw
    /\ resorted' = sortStyleObject(sorted.value)
    /\ pc' = "resorted"
    /\ UNCHANGED <<styleObject, sorted, root, twClass, extracted,
                   twParsedClasses, idx, mergedStyleObject, result>>

NextSort == Canonicalize \/ CanonicalizeAgain
SpecSort == InitSort /\ [][NextSort]_vars

(***************************************************************************)
(* postcss trees.  A node is a declaration (prop: value), a rule (selector *)
(* and child declarations; nodes may be absent) or an at-rule (prelude and *)
(* child nodes).  A root is the sequence of its child nodes.               *)
(***************************************************************************)
Decl(prop, value) ==
    [type |-> "decl", name |-> prop, value |-> value, hasNodes |-> FALSE, nodes |-> <<>>]
Rule(selector, nodes) ==
    [type |-> "rule", name |-> selector, value |-> "", hasNodes |-> TRUE, nodes |-> nodes]
RuleWithoutNodes(selector) ==
    [type |-> "rule", name |-> selector, value |-> "", hasNodes |-> FALSE, nodes |-> <<>>]
AtRule(prelude, nodes) ==
    [type |-> "atrule", name |-> prelude, value |-> "", hasNodes |-> TRUE, nodes |-> nodes]

\* unescapeCSS of ./parseTwSelector: a backslash is dropped and the
\* character after it is kept.
RECURSIVE unescapeCSS(_)
unescapeCSS(selector) ==
    IF selector = <<>> THEN <<>>
    ELSE IF Head(selector) = "\\" /\ Len(selector) >= 2
    THEN <<selector[2]>> \o unescapeCSS(SubSeq(selector, 3, Len(selector)))
    ELSE <<Head(selector)>> \o unescapeCSS(Tail(selector))

\* new RegExp(`\\S*${twClass}`, "g"): twClass is spliced into the pattern
\* unquoted, so a "." in it matches any character.
isSpace(c) == c = " "
patternMatchesAt(text, at, pattern) ==
    /\ at + Len(pattern) - 1 <= Len(text)
    /\ \A j \in 1..Len(pattern) : pattern[j] = "." \/ pattern[j] = text[at + j - 1]
\* The lengths n of a prefix of non-space characters at position at (\S*)
\* after which the pattern matches; the engine takes the longest (greedy).
scopeMatches(text, at, pattern) ==
    {n \in 0..(Len(text) - at + 1) :
        /\ \A j \in at..(at + n - 1) : ~isSpace(text[j])
        /\ patternMatchesAt(text, at + n, pattern)}
maxOf(S) == CHOOSE n \in S : \A m \in S : m <= n

\* unescapedCSS.replace(regexp, "&")
RECURSIVE replaceScopeFrom(_, _, _)
replaceScopeFrom(text, at, pattern) ==
    IF at > Len(text) THEN <<>>
    ELSE LET found == scopeMatches(text, at, pattern)
         IN  IF found = {}
             THEN <<text[at]>> \o replaceScopeFrom(text, at + 1, pattern)
             ELSE <<"&">> \o replaceScopeFrom(text, at + maxOf(found) + Len(pattern), pattern)
replaceScope(unescapedCSS, scope) == replaceScopeFrom(unescapedCSS, 1, scope)

\* The callback without lines 257-259: a rule rewritten to "&" stays a rule.
ruleCallbackKeepsAmpersand(rule, scope) ==
    IF rule.hasNodes
    THEN LET unescapedCSS == unescapeCSS(rule.name)
         IN  IF unescapedCSS = <<".">> \o scope
             THEN [threw |-> FALSE, nodes |-> rule.nodes]
             ELSE [threw |-> FALSE,
                   nodes |-> <<[rule EXCEPT !.name = replaceScope(unescapedCSS, scope)]>>]
    ELSE [threw |-> TRUE, nodes |-> <<>>]

\* The callback of root.walkRules (lines 247-264): the nodes that stand in
\* the rule's place afterwards, or the throw.
ruleCallback(rule, scope) ==
    IF rule.hasNodes
    THEN LET unescapedCSS == unescapeCSS(rule.name)
         IN  IF unescapedCSS = <<".">> \o scope
             THEN [threw |-> FALSE, nodes |-> rule.nodes]
             ELSE LET selector == replaceScope(unescapedCSS, scope)
                  IN  IF selector = <<"&">>
                      THEN [threw |-> FALSE, nodes |-> rule.nodes]
                      ELSE [threw |-> FALSE, nodes |-> <<[rule EXCEPT !.name = selector]>>]
    ELSE [threw |-> TRUE, nodes |-> <<>>]

\* root.walkRules(callback): every rule of the tree, at-rules descended into.
RECURSIVE walkRules(_, _)
walkRules(nodes, scope) ==
    IF nodes = <<>> THEN [threw |-> FALSE, nodes |-> <<>>]
    ELSE LET child == Head(nodes)
             inner == walkRules(child.nodes, scope)
             here == CASE child.type = "rule" -> ruleCallback(child, scope)
                       [] child.type = "atrule" ->
                            [threw |-> inner.threw,
                             nodes |-> <<[child EXCEPT !.nodes = inner.nodes]>>]
                       [] OTHER -> [threw |-> FALSE, nodes |-> <<child>>]
             rest == walkRules(Tail(nodes), scope)
         IN  IF here.threw \/ rest.threw THEN [threw |-> TRUE, nodes |-> <<>>]
             ELSE [threw |-> FALSE, nodes |-> here.nodes \o rest.nodes]

\* objectify of ./postcssjs-objectify: declarations become string entries
\* (camel-cased property, custom properties as they are; a property set
\* twice becomes a declaration array), rules and at-rules become nested
\* objects keyed by selector and prelude.
upperLetters == <<"A", "B", "C", "D", "E", "F", "G", "H", "I", "J", "K", "L", "M",
                  "N", "O", "P", "Q", "R", "S", "T", "U", "V", "W", "X", "Y", "Z">>
toUpperCase(c) ==
    IF \E i \in 1..Len(letters) : letters[i] = c
    THEN upperLetters[CHOOSE i \in 1..Len(letters) : letters[i] = c]
    ELSE c
RECURSIVE camelcase(_)
camelcase(prop) ==
    IF prop = <<>> THEN <<>>
    ELSE IF Head(prop) = "-" /\ Len(prop) >= 2
    THEN <<toUpperCase(prop[2])>> \o camelcase(SubSeq(prop, 3, Len(prop)))
    ELSE IF Head(prop) = "-" THEN <<>>
    ELSE <<Head(prop)>> \o camelcase(Tail(prop))
declName(prop) == IF startsWith(prop, <<"-", "-">>) THEN prop ELSE camelcase(prop)

hasKey(object, key) == \E i \in 1..Len(object) : object[i].key = key
indexOfKey(object, key) == CHOOSE i \in 1..Len(object) : object[i].key = key
get(object, key) == object[indexOfKey(object, key)].value
\* object[key] = value: an existing key keeps its place, a new one goes last.
set(object, key, value) ==
    IF hasKey(object, key)
    THEN [object EXCEPT ![indexOfKey(object, key)] = Entry(key, value)]
    ELSE Append(object, Entry(key, value))

RECURSIVE assign(_, _)
assign(object, source) ==
    IF source = <<>> THEN object
    ELSE assign(set(object, Head(source).key, Head(source).value), Tail(source))

RECURSIVE objectifyInto(_, _)
objectifyInto(acc, nodes) ==
    IF nodes = <<>> THEN acc
    ELSE LET child == Head(nodes)
             body == objectifyInto(<<>>, child.nodes)
             name == declName(child.name)
             next ==
               IF child.type = "decl"
               THEN IF ~hasKey(acc, name) THEN set(acc, name, StringValue(child.value))
                    ELSE IF get(acc, name).isArray
                    THEN set(acc, name, ArrayValue(Append(get(acc, name).items, child.value)))
                    ELSE set(acc, name, ArrayValue(<<get(acc, name).str, child.value>>))
               ELSE IF hasKey(acc, child.name) /\ isNested(get(acc, child.name))
               THEN set(acc, child.name,
                        ObjectValue(assign(get(acc, child.name).entries, body)))
               ELSE set(acc, child.name, ObjectValue(body))
         IN  objectifyInto(next, Tail(nodes))
objectify(nodes) == objectifyInto(<<>>, nodes)

\* getStyleObjectFromTwObject (lines 242-266): the clone is walked and
\* objectified; the caller's root is a value and stays as it is.
getStyleObjectFromTwObject(twObjectRoot, scope) ==
    LET walked == walkRules(twObjectRoot, scope)
    IN  IF walked.threw THEN Thrown ELSE Return(objectify(walked.nodes))

(***************************************************************************)
(* lodash merge(object, source), as called at line 372                     *)
(***************************************************************************)
mergeItems(objItems, srcItems) ==
    [i \in 1..(IF Len(objItems) > Len(srcItems) THEN Len(objItems) ELSE Len(srcItems)) |->
        IF i <= Len(srcItems) THEN srcItems[i] ELSE objItems[i]]

\* Arrays merge index by index, plain objects key by key, anything else is
\* assigned.  An object merged onto an array adds named properties to the
\* array, which the array value here does not hold.
RECURSIVE merge(_, _)
merge(object, source) ==
    IF source = <<>> THEN object
    ELSE LET key == Head(source).key
             srcValue == Head(source).value
             exists == hasKey(object, key)
             objValue == get(object, key)
             newValue ==
               IF srcValue.type = "object" /\ srcValue.isArray
               THEN IF exists /\ objValue.type = "object" /\ objValue.isArray
                    THEN ArrayValue(mergeItems(objValue.items, srcValue.items))
                    ELSE srcValue
               ELSE IF isNested(srcValue)
               THEN IF exists /\ isNested(objValue)
                    THEN ObjectValue(merge(objValue.entries, srcValue.entries))
                    ELSE IF exists /\ objValue.type = "object" THEN objValue
                    ELSE ObjectValue(merge(<<>>, srcValue.entries))
               ELSE srcValue
         IN  merge(set(object, key, newValue), Tail(source))

(***************************************************************************)
(* SpecExtract: getStyleObjectFromTwObject applied to a tree               *)
(***************************************************************************)
MaxNodes == 2

color == <<"c">>
customProperty == <<"-", "-", "v">>
backgroundColor == <<"b", "-", "c">>
mediaSm == <<"@", "m", " ", "6", "4", "0", "p", "x">>
mediaLg == <<"@", "m", " ", "1", "0", "2", "4", "p", "x">>

plainSelector(scope) == <<".">> \o scope
hoverSelector(scope) == <<".", "h", "\\", ":">> \o scope \o <<":", "h">>
smSelector(scope) == <<".", "s", "\\", ":">> \o scope
groupSelector(scope) == <<".", "g", " ", ".">> \o scope
keyframeSelector == <<"t", "o">>

ruleBodies == {<<>>, <<Decl(color, "red")>>,
               <<Decl(color, "red"), Decl(customProperty, "1")>>,
               <<Decl(backgroundColor, "red")>>}
ruleSelectors == {plainSelector(<<"a">>), hoverSelector(<<"a">>), smSelector(<<"a">>),
                  groupSelector(<<"a">>), keyframeSelector}
ruleNodes == {Rule(sel, body) : sel \in ruleSelectors, body \in ruleBodies}
               \cup {RuleWithoutNodes(sel) : sel \in ruleSelectors}
wrappedRules == {Rule(sel, <<Decl(color, "red")>>) :
                    sel \in {plainSelector(<<"a">>), smSelector(<<"a">>), keyframeSelector}}
                  \cup {RuleWithoutNodes(smSelector(<<"a">>))}
atRuleNodes == {AtRule(mediaSm, <<r>>) : r \in wrappedRules}

RECURSIVE sequencesUpTo(_, _)
sequencesUpTo(S, n) ==
    IF n = 0 THEN {<<>>}
    ELSE LET shorter == sequencesUpTo(S, n - 1)
         IN  shorter \cup {Append(p[1], p[2]) :
                               p \in {q \in shorter \X S : Len(q[1]) = n - 1}}

extractRoots == sequencesUpTo(ruleNodes \cup atRuleNodes, MaxNodes)
scopeClasses == {<<"a">>, <<"b">>}

InitExtract ==
    /\ pc = "start"
    /\ root \in extractRoots
    /\ twClass \in scopeClasses
    /\ extracted = idle
    /\ styleObject = <<>>
    /\ sorted = idle
    /\ resorted = idle
    /\ twParsedClasses = <<>>
    /\ idx = 0
    /\ mergedStyleObject = <<>>
    /\ result = idle

Extract ==
    /\ pc = "start"
    /\ extracted' = getStyleObjectFromTwObject(root, twClass)
    /\ pc' = "extracted"
    /\ UNCHANGED <<styleObject, sorted, resorted, root, twClass,
                   twParsedClasses, idx, mergedStyleObject, result>>

NextExtract == Extract
SpecExtract == InitExtract /\ [][NextExtract]_vars

(***************************************************************************)
(* Spec: transformTwClassesToStyleObject (lines 356-376) on a class list   *)
(***************************************************************************)
MaxClasses == 3

\* generateTwClassesRoot, the callback the caller supplies: the utility's
\* declarations in a rule scoped to the class, wrapped by its variant.
\* The utility "e" yields a rule without nodes.
utilityDeclarations(utility) ==
    CASE utility = <<"a">> -> <<Decl(color, "red")>>
      [] utility = <<"b">> -> <<Decl(color, "blue"), Decl(customProperty, "1")>>
      [] utility = <<"f">> -> <<Decl(color, "x"), Decl(color, "y")>>
      [] utility = <<"g">> -> <<Decl(backgroundColor, "red")>>
      [] OTHER -> <<>>
generateTwClassesRoot(twParsedClass) ==
    LET utility == twParsedClass[1]
        twClassVariants == twParsedClass[2]
        body == utilityDeclarations(utility)
    IN  IF utility = <<"e">> THEN <<RuleWithoutNodes(plainSelector(utility))>>
        ELSE IF twClassVariants = <<>> THEN <<Rule(plainSelector(utility), body)>>
        ELSE IF twClassVariants = <<"hover">> THEN <<Rule(hoverSelector(utility), body)>>
        ELSE <<AtRule(mediaSm, <<Rule(smSelector(utility), body)>>)>>

parsedClasses ==
    ({<<"a">>, <<"b">>} \X {<<>>, <<"hover">>, <<"sm">>})
      \cup ({<<"g">>} \X {<<>>, <<"hover">>})
      \cup {<<(<<"f">>), <<>> >>, <<(<<"e">>), <<>> >>}
classLists == sequencesUpTo(parsedClasses, MaxClasses)

\* The loop body with the arguments of merge exchanged.
mergeClassSourceFirst(merged, twParsedClass) ==
    LET source == getStyleObjectFromTwObject(generateTwClassesRoot(twParsedClass),
                                             twParsedClass[1])
    IN  IF source.threw THEN Thrown ELSE Return(merge(source.value, merged))

\* The loop body with Object.assign in the place of merge.
mergeClassShallow(merged, twParsedClass) ==
    LET source == getStyleObjectFromTwObject(generateTwClassesRoot(twParsedClass),
                                             twParsedClass[1])
    IN  IF source.threw THEN Thrown ELSE Return(assign(merged, source.value))

\* The body of the for loop (lines 366-373) for one class: the merged style
\* object afterwards, or the throw of getStyleObjectFromTwObject.
mergeClass(merged, twParsedClass) ==
    LET source == getStyleObjectFromTwObject(generateTwClassesRoot(twParsedClass),
                                             twParsedClass[1])
    IN  IF source.threw THEN Thrown ELSE Return(merge(merged, source.value))

Init ==
    /\ pc = "loop"
    /\ twParsedClasses \in classLists
    /\ idx = 0
    /\ mergedStyleObject = <<>>
    /\ result = idle
    /\ root = <<>>
    /\ twClass = <<>>
    /\ extracted = idle
    /\ styleObject = <<>>
    /\ sorted = idle
    /\ resorted = idle

\* One iteration of the loop.
MergeNextClass ==
    /\ pc = "loop"
    /\ idx < Len(twParsedClasses)
    /\ LET twParsedClass == twParsedClasses[idx + 1]
           merged == mergeClass(mergedStyleObject, twParsedClass)
       IN  /\ root' = generateTwClassesRoot(twParsedClass)
           /\ twClass' = twParsedClass[1]
           /\ extracted' = getStyleObjectFromTwObject(root', twClass')
           /\ IF merged.threw
              THEN /\ pc' = "threw"
                   /\ result' = Thrown
                   /\ UNCHANGED <<idx, mergedStyleObject>>
              ELSE /\ pc' = "loop"
                   /\ idx' = idx + 1
                   /\ mergedStyleObject' = merged.value
                   /\ UNCHANGED result
    /\ UNCHANGED <<twParsedClasses, styleObject, sorted, resorted>>

\* return sortStyleObject(mergedStyleObject)
SortMerged ==
    /\ pc = "loop"
    /\ idx = Len(twParsedClasses)
    /\ result' = sortStyleObject(mergedStyleObject)
    /\ pc' = "done"
    /\ UNCHANGED <<twParsedClasses, idx, mergedStyleObject, root, twClass, extracted,
                   styleObject, sorted, resorted>>

Next == MergeNextClass \/ SortMerged
Spec == Init /\ [][Next]_vars

(***************************************************************************)
(* Properties                                                              *)
(***************************************************************************)
\* The entry sequences of a style object, one per nesting level.
RECURSIVE levelsOf(_)
levelsOf(object) ==
    {object} \cup UNION {levelsOf(object[i].value.entries) :
                            i \in {j \in 1..Len(object) : isNested(object[j].value)}}
kindAt(level, i) == getValueType(level[i].key, level[i].value)
allSupported(object) ==
    \A level \in levelsOf(object) : \A i \in 1..Len(level) : kindAt(level, i) # Unsupported
numberOf(key) == parseInt(stripNonDigits(key))

\* The key paths of a style object, and the value at a path.
RECURSIVE pathsOf(_)
pathsOf(object) ==
    UNION {{<<object[i].key>>} \cup
           (IF isNested(object[i].value)
            THEN {<<object[i].key>> \o path : path \in pathsOf(object[i].value.entries)}
            ELSE {}) : i \in 1..Len(object)}
RECURSIVE hasPath(_, _)
hasPath(object, path) ==
    /\ hasKey(object, Head(path))
    /\ \/ Len(path) = 1
       \/ /\ isNested(get(object, Head(path)))
          /\ hasPath(get(object, Head(path)).entries, Tail(path))
RECURSIVE valueAt(_, _)
valueAt(object, path) ==
    IF Len(path) = 1 THEN get(object, Head(path))
    ELSE valueAt(get(object, Head(path)).entries, Tail(path))

\* What class i of the list contributes: its extracted style object.
contribution(i) ==
    getStyleObjectFromTwObject(generateTwClassesRoot(twParsedClasses[i]),
                               twParsedClasses[i][1]).value
setters(path) == {i \in 1..Len(twParsedClasses) : hasPath(contribution(i), path)}
contributedPaths == UNION {pathsOf(contribution(i)) : i \in 1..Len(twParsedClasses)}

\* C1: when two or more classes of the list set a key at the same nesting
\* level and the last of them in list order sets a string, the result of
\* transformTwClassesToStyleObject holds that string under the key.
C1_LastClassWins ==
    (pc = "done" /\ ~result.threw) =>
        \A path \in contributedPaths :
            LET last == maxOf(setters(path))
            IN  (Cardinality(setters(path)) >= 2
                   /\ valueAt(contribution(last), path).type = "string")
                => /\ hasPath(result.value, path)
                   /\ valueAt(result.value, path) = valueAt(contribution(last), path)

\* C1 witness: two classes set color to different strings and the call returned.
C1_Witness ==
    /\ pc = "done"
    /\ ~result.threw
    /\ \E i, j \in 1..Len(twParsedClasses) :
          /\ i < j
          /\ hasPath(contribution(i), <<color>>)
          /\ hasPath(contribution(j), <<color>>)
          /\ valueAt(contribution(i), <<color>>).type = "string"
          /\ valueAt(contribution(j), <<color>>).type = "string"
          /\ valueAt(contribution(i), <<color>>) # valueAt(contribution(j), <<color>>)
          /\ j = maxOf(setters(<<color>>))

\* C2: every key a class contributes under a rule or at-rule key is in the
\* result under that key: nested objects of two classes are merged key by
\* key, none replaces the other.
C2_NestedMerged ==
    (pc = "done" /\ ~result.threw) =>
        \A path \in contributedPaths : Len(path) >= 2 => hasPath(result.value, path)

\* C2 witness: two classes contribute different declarations under one rule key.
C2_Witness ==
    /\ pc = "done"
    /\ ~result.threw
    /\ \E i, j \in 1..Len(twParsedClasses) : \E key \in keysOf(contribution(i)) :
          /\ i < j
          /\ isNested(get(contribution(i), key))
          /\ hasKey(contribution(j), key)
          /\ isNested(get(contribution(j), key))
          /\ keysOf(get(contribution(i), key).entries)
               \cap keysOf(get(contribution(j), key).entries) = {}
          /\ keysOf(get(contribution(i), key).entries) # {}
          /\ keysOf(get(contribution(j), key).entries) # {}

\* C3: sorting the result of sortStyleObject again changes nothing, for
\* every style object of supported entries.
C3_Idempotent ==
    (pc = "resorted" /\ allSupported(styleObject)) =>
        (~resorted.threw /\ resorted.value = sorted.value)

\* C4: in the result of sortStyleObject every custom property comes before
\* every plain declaration and declaration array of its level.
C4_VariablesFirst ==
    (pc = "sorted" /\ ~sorted.threw) =>
        \A level \in levelsOf(sorted.value) : \A i, j \in 1..Len(level) :
            (kindAt(level, i) = "declVariable" /\ kindAt(level, j) \in {"decl", "declArray"})
            => i < j

\* C5: in the result of sortStyleObject every declaration (custom property,
\* plain declaration, declaration array) comes before every rule and
\* at-rule of its level.
C5_DeclarationsBeforeRules ==
    (pc = "sorted" /\ ~sorted.threw) =>
        \A level \in levelsOf(sorted.value) : \A i, j \in 1..Len(level) :
            (isDeclType(kindAt(level, i)) /\ kindAt(level, j) \in {"rule", "atRule"})
            => i < j

\* C5 witness: a style object with a rule or at-rule ahead of a declaration
\* was sorted.
C5_Witness ==
    /\ pc = "sorted"
    /\ ~sorted.threw
    /\ \E i, j \in 1..Len(styleObject) :
          /\ i < j
          /\ kindAt(styleObject, i) \in {"rule", "atRule"}
          /\ isDeclType(kindAt(styleObject, j))

\* C6: in the result of sortStyleObject, of two at-rule keys of one level
\* that both hold digits the one with the smaller number comes first.
C6_AtRulesAscending ==
    (pc = "sorted" /\ ~sorted.threw) =>
        \A level \in levelsOf(sorted.value) : \A i, j \in 1..Len(level) :
            (/\ kindAt(level, i) = "atRule"
             /\ kindAt(level, j) = "atRule"
             /\ numberOf(level[i].key) # NaN
             /\ numberOf(level[j].key) # NaN
             /\ numberOf(level[i].key) < numberOf(level[j].key))
            => i < j

\* The rules of a tree, each with the preludes of the at-rules around it.
RECURSIVE rulesIn(_, _)
rulesIn(nodes, path) ==
    UNION {IF nodes[i].type = "rule" THEN {[rule |-> nodes[i], path |-> path]}
           ELSE IF nodes[i].type = "atrule"
           THEN rulesIn(nodes[i].nodes, Append(path, nodes[i].name))
           ELSE {} : i \in 1..Len(nodes)}
RECURSIVE levelAt(_, _)
levelAt(object, path) ==
    IF path = <<>> THEN object ELSE levelAt(get(object, Head(path)).entries, Tail(path))
isScopeOnly(rule, scope) ==
    /\ rule.hasNodes
    /\ \/ unescapeCSS(rule.name) = <<".">> \o scope
       \/ replaceScope(unescapeCSS(rule.name), scope) = <<"&">>

\* C7: a rule whose selector is the scope class alone, or is "&" after the
\* rewrite, leaves no entry of its own in the extracted style object; its
\* declarations are entries of the level the rule stood at.
C7_ScopingErasure ==
    (pc = "extracted" /\ ~extracted.threw) =>
        \A r \in rulesIn(root, <<>>) :
            isScopeOnly(r.rule, twClass) =>
                LET level == levelAt(extracted.value, r.path)
                IN  /\ ~hasKey(level, r.rule.name)
                    /\ ~hasKey(level, unescapeCSS(r.rule.name))
                    /\ ~hasKey(level, <<"&">>)
                    /\ \A i \in 1..Len(r.rule.nodes) :
                          hasKey(level, declName(r.rule.nodes[i].name))

\* C7 witness: a rule inside an at-rule whose selector becomes "&", with
\* declarations, was extracted.
C7_Witness ==
    /\ pc = "extracted"
    /\ ~extracted.threw
    /\ \E r \in rulesIn(root, <<>>) :
          /\ isScopeOnly(r.rule, twClass)
          /\ unescapeCSS(r.rule.name) # <<".">> \o twClass
          /\ r.path # <<>>
          /\ r.rule.nodes # <<>>

\* C8: sortStyleObject throws for every style object that holds an entry of
\* no supported type at any level.
C8_UnsupportedThrows ==
    (pc = "sorted" /\ ~allSupported(styleObject)) => sorted.threw

\* C9: getStyleObjectFromTwObject throws for every tree that holds a rule
\* without children, its child list absent or empty.
C9_ChildlessRuleThrows ==
    (pc = "extracted"
       /\ \E r \in rulesIn(root, <<>>) : ~r.rule.hasNodes \/ r.rule.nodes = <<>>)
    => extracted.threw

\* C10: getStyleObjectFromTwObject throws when a rule's selector is not the
\* scope class alone and the rewrite finds no scope class in it.
C10_UnscopedRuleThrows ==
    (pc = "extracted"
       /\ \E r \in rulesIn(root, <<>>) :
             /\ r.rule.hasNodes
             /\ unescapeCSS(r.rule.name) # <<".">> \o twClass
             /\ replaceScope(unescapeCSS(r.rule.name), twClass) = unescapeCSS(r.rule.name))
    => extracted.threw

====
